---- MODULE Spec2Model ----
(***************************************************************************)
(* Model of the scene-transition demo: App (toggle button),                *)
(* TransitionScene (React state, toggle effect, per-frame callback) and    *)
(* TransitionMaterial (the wipe fragment shader).                          *)
(*                                                                         *)
(* Time is counted in clock ticks, TicksPerSecond ticks to the second.     *)
(* Shader arithmetic is exact rational arithmetic on pairs <<num, den>>.   *)
(***************************************************************************)
EXTENDS Integers, Naturals, Sequences, FiniteSets, TLC

(* ------------------------------ bounds -------------------------------- *)
TicksPerSecond == 2
MaxClock == 10
MaxClicks == 3
PixelRes == 8

(* ------------------------- program constants -------------------------- *)
duration == 3
SentinelSeconds == 1000

DurTicks == duration * TicksPerSecond
Sentinel == (0 - SentinelSeconds) * TicksPerSecond
Horizon == MaxClock - DurTicks

(* ------------------------ rational arithmetic ------------------------- *)
Abs(n) == IF n < 0 THEN 0 - n ELSE n

RECURSIVE GCD(_, _)
GCD(a, b) == IF b = 0 THEN a ELSE GCD(b, a % b)

Norm(n, d) ==
  LET s == IF d < 0 THEN 0 - 1 ELSE 1
      g == GCD(Abs(n), Abs(d))
  IN  <<(s * n) \div g, (s * d) \div g>>

R(n, d) == Norm(n, d)
RAdd(a, b) == Norm(a[1] * b[2] + b[1] * a[2], a[2] * b[2])
RNeg(a) == <<0 - a[1], a[2]>>
RSub(a, b) == RAdd(a, RNeg(b))
RMul(a, b) == Norm(a[1] * b[1], a[2] * b[2])
RDiv(a, b) == Norm(a[1] * b[2], a[2] * b[1])
RLe(a, b) == a[1] * b[2] <= b[1] * a[2]
RLt(a, b) == a[1] * b[2] < b[1] * a[2]
Zero == R(0, 1)
One == R(1, 1)

(* ------------------- TransitionMaterial fragment shader ---------------- *)
(* GLSL clamp(x, lo, hi) = min(max(x, lo), hi) *)
clamp(x, lo, hi) == IF RLt(x, lo) THEN lo ELSE IF RLt(hi, x) THEN hi ELSE x

(* GLSL smoothstep(edge0, edge1, x): t = clamp((x-edge0)/(edge1-edge0),0,1); *)
(* t*t*(3-2t).  The shader calls it with edge0 > edge1; the model takes the *)
(* reference formula, which is what GLSL implementations evaluate.          *)
smoothstepSwapped(edge0, edge1, x) ==
  LET t == clamp(RDiv(RSub(x, edge1), RSub(edge0, edge1)), Zero, One)
  IN  RMul(RMul(t, t), RSub(R(3, 1), RMul(R(2, 1), t)))

smoothstepNoClamp(edge0, edge1, x) ==
  LET t == RDiv(RSub(x, edge0), RSub(edge1, edge0))
  IN  RMul(RMul(t, t), RSub(R(3, 1), RMul(R(2, 1), t)))

smoothstep(edge0, edge1, x) ==
  LET t == clamp(RDiv(RSub(x, edge0), RSub(edge1, edge0)), Zero, One)
  IN  RMul(RMul(t, t), RSub(R(3, 1), RMul(R(2, 1), t)))

(* GLSL mix(a, b, f) = a*(1-f) + b*f *)
mixSwapped(a, b, f) == RAdd(RMul(b, RSub(One, f)), RMul(a, f))

mix(a, b, f) == RAdd(RMul(a, RSub(One, f)), RMul(b, f))

waveWidth == R(1, 4)
halfWave == RMul(waveWidth, R(1, 2))
maxLength == RAdd(One, waveWidth)

(* clamp((time - timeStart) / duration, 0.0, 1.0); t, ts in ticks *)
Progress(t, ts) ==
  clamp(RDiv(R(t - ts, TicksPerSecond), R(duration, 1)), Zero, One)

(* a wave that runs backwards as progress grows *)
currWavePosBackwards(t, ts) ==
  RSub(RAdd(One, halfWave), RMul(maxLength, Progress(t, ts)))

currWavePos(t, ts) ==
  RAdd(RNeg(halfWave), RMul(maxLength, Progress(t, ts)))

(* float f = smoothstep(currWavePos + halfWave, currWavePos - halfWave, d) *)
BlendFactor(t, ts, d) ==
  smoothstep(RAdd(currWavePos(t, ts), halfWave),
             RSub(currWavePos(t, ts), halfWave), d)

(* pixel columns d = vUv.x = k / PixelRes *)
Pixels == {R(k, PixelRes) : k \in 0..PixelRes}

(* colour of a scene at any pixel; the two scenes are told apart by it *)
SceneColor(i) == IF i = 0 THEN R(1, 5) ELSE R(4, 5)
NoScene == 2
TexColor(s) == IF s = NoScene THEN Zero ELSE SceneColor(s)

(* gl_FragColor: mix(s0.rgb, s1.rgb, f) *)
FragColor(tex0, tex1, t, ts, d) ==
  mix(TexColor(tex0), TexColor(tex1), BlendFactor(t, ts, d))

(* ------------------------------- state -------------------------------- *)
VARIABLES
  toggle,            \* App: useState(false), with queued setToggle applied
  clicks,            \* number of button presses so far (bounds the run)
  propToggle,        \* toggle prop of the last committed TransitionScene render
  action,            \* useState(0)
  currentSceneIndex, \* useState(0)
  timeStart,         \* useState(-1000), in ticks
  isFirstRender,     \* useState(true)
  updateQueue,       \* setState calls made by the effect, not yet rendered
  effectPending,     \* the [toggle] effect is scheduled and has not run yet
  clock,             \* THREE.Clock elapsed time, in ticks
  time,              \* time.current
  materialRef,       \* materialRef.current
  uniforms,          \* uniforms of the transitionMaterial
  gl,                \* renderer: bound target and content of the two FBOs
  trigLog,           \* history: clock stamps of the triggers the effect issued
  idxHist,           \* history: values committed to currentSceneIndex
  tsHist,            \* history: values committed to timeStart
  shown              \* uniform snapshot of the last composite pass drawn

vars == <<toggle, clicks, propToggle, action, currentSceneIndex, timeStart,
          isFirstRender, updateQueue, effectPending, clock, time, materialRef,
          uniforms, gl, trigLog, idxHist, tsHist, shown>>

Last(s) == s[Len(s)]

(* (prev) => (prev === 0 ? 1 : 0) *)
FlipStuck(prev) == 1

Flip(prev) == IF prev = 0 THEN 1 ELSE 0

(* clock.current.getElapsedTime() *)
getElapsedTimeStale == time

getElapsedTime == clock

Update(hook, value) == [hook |-> hook, value |-> value]

(* the start times a batch of setState calls carries *)
Stamps(q) ==
  LET sel == SelectSeq(q, LAMBDA u : u.hook = "timeStart")
  IN  [i \in 1..Len(sel) |-> sel[i].value]

(* body of the [toggle] effect: the setState calls it makes *)
ToggleEffectLate(first) ==
  IF ~first
    THEN <<Update("action", 0), Update("currentSceneIndex", 0),
           Update("timeStart", getElapsedTime + 1)>>
    ELSE <<Update("isFirstRender", 0)>>

ToggleEffectGuarded(first) ==
  IF ~first
    THEN IF getElapsedTime - timeStart < DurTicks
           THEN <<>>
           ELSE <<Update("action", 0), Update("currentSceneIndex", 0),
                  Update("timeStart", getElapsedTime)>>
    ELSE <<Update("isFirstRender", 0)>>

ToggleEffectNoAction(first) ==
  IF ~first
    THEN <<Update("currentSceneIndex", 0), Update("timeStart", getElapsedTime)>>
    ELSE <<Update("isFirstRender", 0)>>

ToggleEffectNoGuard(first) ==
  <<Update("action", 0), Update("currentSceneIndex", 0),
    Update("timeStart", getElapsedTime)>>

ToggleEffectInverted(first) ==
  IF first
    THEN <<Update("action", 0), Update("currentSceneIndex", 0),
           Update("timeStart", getElapsedTime)>>
    ELSE <<Update("isFirstRender", 0)>>

ToggleEffect(first) ==
  IF ~first
    THEN <<Update("action", 0), Update("currentSceneIndex", 0),
           Update("timeStart", getElapsedTime)>>
    ELSE <<Update("isFirstRender", 0)>>

(* one queued update applied to the hook state *)
ApplyUpdate(st, u) ==
  CASE u.hook = "action" -> [st EXCEPT !.action = Flip(@)]
    [] u.hook = "currentSceneIndex" ->
         [st EXCEPT !.currentSceneIndex = Flip(@),
                    !.idxHist = Append(@, Flip(st.currentSceneIndex))]
    [] u.hook = "timeStart" ->
         [st EXCEPT !.timeStart = u.value, !.tsHist = Append(@, u.value)]
    [] u.hook = "isFirstRender" -> [st EXCEPT !.isFirstRender = FALSE]

RECURSIVE ApplyUpdates(_, _)
ApplyUpdates(st, q) ==
  IF q = <<>> THEN st ELSE ApplyUpdates(ApplyUpdate(st, Head(q)), Tail(q))

HookState ==
  [action |-> action, currentSceneIndex |-> currentSceneIndex,
   timeStart |-> timeStart, isFirstRender |-> isFirstRender,
   idxHist |-> idxHist, tsHist |-> tsHist]

(* a render pass that takes one queued update at a time *)
BatchOne(q) == IF q = <<>> THEN q ELSE <<Head(q)>>

(* the updates one render pass processes: all that are queued *)
Batch(q) == q

(* the GL calls of the frame callback, in order *)
FrameOpsNoRestore(idx) ==
  << [op |-> "setRenderTarget", arg |-> "fbo1"],
     [op |-> "render", arg |-> idx],
     [op |-> "setRenderTarget", arg |-> "fbo2"],
     [op |-> "render", arg |-> 1 - idx] >>

FrameOpsDoubleBind(idx) ==
  << [op |-> "setRenderTarget", arg |-> "fbo1"],
     [op |-> "render", arg |-> idx],
     [op |-> "setRenderTarget", arg |-> "fbo1"],
     [op |-> "render", arg |-> 1 - idx],
     [op |-> "setRenderTarget", arg |-> "null"] >>

FrameOpsSameScene(idx) ==
  << [op |-> "setRenderTarget", arg |-> "fbo1"],
     [op |-> "render", arg |-> idx],
     [op |-> "setRenderTarget", arg |-> "fbo2"],
     [op |-> "render", arg |-> idx],
     [op |-> "setRenderTarget", arg |-> "null"] >>

FrameOpsFixed(idx) ==
  << [op |-> "setRenderTarget", arg |-> "fbo1"],
     [op |-> "render", arg |-> 0],
     [op |-> "setRenderTarget", arg |-> "fbo2"],
     [op |-> "render", arg |-> 1],
     [op |-> "setRenderTarget", arg |-> "null"] >>

FrameOps(idx) ==
  << [op |-> "setRenderTarget", arg |-> "fbo1"],
     [op |-> "render", arg |-> idx],
     [op |-> "setRenderTarget", arg |-> "fbo2"],
     [op |-> "render", arg |-> 1 - idx],
     [op |-> "setRenderTarget", arg |-> "null"] >>

(* gl.setRenderTarget(t) / gl.render(scenes[i], camera) *)
GLStep(g, o) ==
  IF o.op = "setRenderTarget"
    THEN [g EXCEPT !.target = o.arg]
    ELSE IF g.target = "null" THEN g ELSE [g EXCEPT ![g.target] = o.arg]

RECURSIVE GLRun(_, _)
GLRun(g, ops) == IF ops = <<>> THEN g ELSE GLRun(GLStep(g, Head(ops)), Tail(ops))

(* content of the texture a sampler uniform refers to *)
Texture(ref) == IF ref = "null" THEN NoScene ELSE gl[ref]

(* the uniform writes of the frame callback, in order *)
UniformOps ==
  << [op |-> "setUniform", arg |-> "scene0"],
     [op |-> "setUniform", arg |-> "scene1"],
     [op |-> "setUniform", arg |-> "time"],
     [op |-> "setUniform", arg |-> "timeStart"] >>

(* all calls of the frame callback: the gl calls, then, under             *)
(* if (materialRef.current), the uniform writes                           *)
FrameCallsUnguardedTime(idx, ref) ==
  FrameOps(idx) \o (IF ref # "null" THEN UniformOps
                    ELSE <<[op |-> "setUniform", arg |-> "time"]>>)

FrameCalls(idx, ref) ==
  FrameOps(idx) \o (IF ref # "null" THEN UniformOps ELSE <<>>)

(* materialRef.current.uniforms.<name>.value = ... *)
UniformStep(u, name) ==
  CASE name = "scene0" -> [u EXCEPT !.scene0 = "fbo1"]
    [] name = "scene1" -> [u EXCEPT !.scene1 = "fbo2"]
    [] name = "time" -> [u EXCEPT !.time = getElapsedTime]
    [] name = "timeStart" -> [u EXCEPT !.timeStart = timeStart]

ExecCall(st, o) ==
  IF o.op = "setUniform"
    THEN [st EXCEPT !.uniforms = UniformStep(@, o.arg)]
    ELSE [st EXCEPT !.gl = GLStep(@, o)]

RECURSIVE RunCalls(_, _)
RunCalls(st, calls) ==
  IF calls = <<>> THEN st ELSE RunCalls(ExecCall(st, Head(calls)), Tail(calls))

(* what the composite pass samples: the uniforms with the textures' content *)
Snapshot(u, g) ==
  [scene0 |-> IF u.scene0 = "null" THEN NoScene ELSE g[u.scene0],
   scene1 |-> IF u.scene1 = "null" THEN NoScene ELSE g[u.scene1],
   time |-> u.time, timeStart |-> u.timeStart]

(* ------------------------------- Init --------------------------------- *)
(* The state after the first commit: hooks hold their initial values, the  *)
(* material exists with its default uniforms, the mount run of the         *)
(* [toggle] effect is scheduled.                                           *)
InitHooks ==
  /\ toggle = FALSE
  /\ clicks = 0
  /\ propToggle = FALSE
  /\ action = 0
  /\ currentSceneIndex = 0
  /\ timeStart = Sentinel
  /\ isFirstRender = TRUE
  /\ updateQueue = <<>>
  /\ effectPending = TRUE
  /\ clock = 0
  /\ time = 0
  /\ uniforms = [scene0 |-> "null", scene1 |-> "null", action |-> 0,
                 time |-> 0, timeStart |-> Sentinel]
  /\ gl = [target |-> "null", fbo1 |-> NoScene, fbo2 |-> NoScene]
  /\ trigLog = <<>>
  /\ idxHist = <<0>>
  /\ tsHist = <<Sentinel>>
  /\ shown = [scene0 |-> NoScene, scene1 |-> NoScene, time |-> 0,
              timeStart |-> Sentinel]

Init == InitHooks /\ materialRef = "material"

MountInit == InitHooks /\ materialRef = "null"

(* ------------------------------ actions ------------------------------- *)
TriggerInFlight ==
  toggle # propToggle \/ effectPending \/ updateQueue # <<>>

(* the clock runs on; a trigger in flight is stamped within the horizon *)
Advance ==
  /\ clock < MaxClock
  /\ TriggerInFlight => clock < Horizon
  /\ clock' = clock + 1
  /\ UNCHANGED <<toggle, clicks, propToggle, action, currentSceneIndex,
                 timeStart, isFirstRender, updateQueue, effectPending, time,
                 materialRef, uniforms, gl, trigLog, idxHist, tsHist, shown>>

(* App.toggleScene: setToggle((prev) => !prev) *)
toggleScene ==
  /\ clicks < MaxClicks
  /\ clock <= Horizon
  /\ toggle' = ~toggle
  /\ clicks' = clicks + 1
  /\ UNCHANGED <<propToggle, action, currentSceneIndex, timeStart,
                 isFirstRender, updateQueue, effectPending, clock, time,
                 materialRef, uniforms, gl, trigLog, idxHist, tsHist, shown>>

(* useEffect(() => {...}, [toggle]) runs.  Pending effects are flushed     *)
(* before the next render, so the closure's isFirstRender is the committed *)
(* one.                                                                    *)
RunEffect ==
  /\ effectPending
  /\ effectPending' = FALSE
  /\ updateQueue' = updateQueue \o ToggleEffect(isFirstRender)
  /\ trigLog' = trigLog \o Stamps(ToggleEffect(isFirstRender))
  /\ UNCHANGED <<toggle, clicks, propToggle, action, currentSceneIndex,
                 timeStart, isFirstRender, clock, time, materialRef,
                 uniforms, gl, idxHist, tsHist, shown>>

(* React re-renders and commits: queued updates are applied, the changed   *)
(* props of <transitionMaterial> are written to its uniforms, and the      *)
(* [toggle] effect is scheduled when toggle changed.                       *)
Render ==
  /\ ~effectPending
  /\ updateQueue # <<>> \/ toggle # propToggle
  /\ LET b == Batch(updateQueue)
         st == ApplyUpdates(HookState, b)
     IN  /\ action' = st.action
         /\ currentSceneIndex' = st.currentSceneIndex
         /\ timeStart' = st.timeStart
         /\ isFirstRender' = st.isFirstRender
         /\ idxHist' = st.idxHist
         /\ tsHist' = st.tsHist
         /\ updateQueue' = SubSeq(updateQueue, Len(b) + 1, Len(updateQueue))
         /\ uniforms' = [uniforms EXCEPT !.action = st.action,
                                         !.time = time,
                                         !.timeStart = st.timeStart]
  /\ propToggle' = toggle
  /\ effectPending' = (toggle # propToggle)
  /\ UNCHANGED <<toggle, clicks, clock, time, materialRef, gl, trigLog, shown>>

(* useFrame(() => {...}), followed by the draw of the full-screen quad    *)
(* with the uniforms and textures as the callback left them               *)
FrameTickRestamp ==
  LET r == RunCalls([gl |-> gl, uniforms |-> uniforms],
                    FrameCalls(currentSceneIndex, materialRef))
  IN  /\ time' = getElapsedTime
      /\ gl' = r.gl
      /\ uniforms' = r.uniforms
      /\ shown' = Snapshot(r.uniforms, r.gl)
      /\ timeStart' = IF getElapsedTime - timeStart >= DurTicks
                        THEN Sentinel ELSE timeStart
      /\ UNCHANGED <<toggle, clicks, propToggle, action, currentSceneIndex,
                     isFirstRender, updateQueue, effectPending, clock,
                     materialRef, trigLog, idxHist, tsHist>>

FrameTick ==
  LET r == RunCalls([gl |-> gl, uniforms |-> uniforms],
                    FrameCalls(currentSceneIndex, materialRef))
  IN  /\ time' = getElapsedTime
      /\ gl' = r.gl
      /\ uniforms' = r.uniforms
      /\ shown' = Snapshot(r.uniforms, r.gl)
      /\ UNCHANGED <<toggle, clicks, propToggle, action, currentSceneIndex,
                     timeStart, isFirstRender, updateQueue, effectPending,
                     clock, materialRef, trigLog, idxHist, tsHist>>

(* the commit attaches the material to materialRef *)
AttachMaterial ==
  /\ materialRef = "null"
  /\ materialRef' = "material"
  /\ UNCHANGED <<toggle, clicks, propToggle, action, currentSceneIndex,
                 timeStart, isFirstRender, updateQueue, effectPending, clock,
                 time, uniforms, gl, trigLog, idxHist, tsHist, shown>>

Next == Advance \/ toggleScene \/ RunEffect \/ Render \/ FrameTick

Spec == Init /\ [][Next]_vars

(* The same program started from the first render, where useRef() has not  *)
(* been given the material yet: frames may tick before the ref is set.     *)
MountNext ==
  Advance \/ toggleScene \/ RunEffect \/ Render \/ FrameTick
    \/ AttachMaterial

MountSpec == MountInit /\ [][MountNext]_vars

(* the render loop keeps ticking, the clock keeps running, and React gets  *)
(* to run scheduled effects and renders                                    *)
FairSpec ==
  Spec /\ WF_vars(Advance) /\ WF_vars(FrameTick) /\ WF_vars(RunEffect)
       /\ WF_vars(Render)

TypeOK ==
  /\ toggle \in BOOLEAN /\ propToggle \in BOOLEAN
  /\ clicks \in 0..MaxClicks
  /\ action \in {0, 1} /\ currentSceneIndex \in {0, 1}
  /\ timeStart \in {Sentinel} \cup 0..MaxClock
  /\ isFirstRender \in BOOLEAN /\ effectPending \in BOOLEAN
  /\ clock \in 0..MaxClock /\ time \in 0..MaxClock
  /\ Len(updateQueue) <= 3

(* ============================== claims ================================ *)
(* the uniforms the fragment shader runs with *)
F(d) == BlendFactor(uniforms.time, uniforms.timeStart, d)
Composite(d) ==
  FragColor(Texture(uniforms.scene0), Texture(uniforms.scene1),
            uniforms.time, uniforms.timeStart, d)

NoEffectRanYet ==
  effectPending /\ isFirstRender /\ updateQueue = <<>> /\ trigLog = <<>>

TriggerUpdates(stamp) ==
  <<Update("action", 0), Update("currentSceneIndex", 0),
    Update("timeStart", stamp)>>

(* C1: the first run of the toggle effect changes neither the active index *)
(* nor the start time; it only queues the guard update, whose commit sets  *)
(* isFirstRender to false, and isFirstRender never becomes true again.     *)
C1_FirstTriggerGuard ==
  [][ /\ (RunEffect /\ NoEffectRanYet) =>
           /\ updateQueue' = <<Update("isFirstRender", 0)>>
           /\ trigLog' = <<>>
           /\ currentSceneIndex' = 0 /\ timeStart' = Sentinel
      /\ (Render /\ trigLog = <<>>) =>
           /\ currentSceneIndex' = 0 /\ timeStart' = Sentinel
           /\ updateQueue # <<>> => ~isFirstRender'
      /\ ~isFirstRender => ~isFirstRender' ]_vars

C1_Witness ==
  /\ ~isFirstRender /\ ~effectPending /\ updateQueue = <<>>
  /\ trigLog = <<>> /\ currentSceneIndex = 0 /\ timeStart = Sentinel
  /\ clock > 0

(* C2: with the guard consumed, the index committed by the (k+2)-th        *)
(* trigger equals the one committed by the k-th, and the frame's           *)
(* scene-to-target assignment for it is the same.                          *)
C2_IndexSwap ==
  /\ currentSceneIndex = Last(idxHist)
  /\ \A k \in 1..Len(idxHist) :
       k + 2 <= Len(idxHist) =>
         /\ idxHist[k + 2] = idxHist[k]
         /\ GLRun(gl, FrameOps(idxHist[k + 2])) = GLRun(gl, FrameOps(idxHist[k]))
  /\ \A k \in 1..Len(idxHist) :
       k + 1 <= Len(idxHist) => idxHist[k + 1] # idxHist[k]

C2_Witness ==
  /\ Len(idxHist) >= 3 /\ ~isFirstRender
  /\ gl.fbo1 = Last(idxHist) /\ gl.fbo2 = 1 - Last(idxHist)

(* C3 as stated: timeStart never exceeds the time held for the frame       *)
(* (time.current, the time uniform), in every reachable state.             *)
C3_Original ==
  timeStart <= time /\ uniforms.timeStart <= uniforms.time

(* C3 amended: timeStart never exceeds the clock's elapsed time, and at    *)
(* the end of every frame tick timeStart <= time.current and the           *)
(* timeStart uniform <= the time uniform.                                  *)
C3_StartNotAfterNow ==
  [][ /\ timeStart' <= clock'
      /\ FrameTick => /\ timeStart' <= time'
                      /\ uniforms'.timeStart <= uniforms'.time ]_vars

C3_Witness ==
  /\ timeStart > 0 /\ time >= timeStart
  /\ uniforms.timeStart = timeStart /\ uniforms.time = time
  /\ uniforms.scene0 = "fbo1"

(* C4: whenever now - transitionStart >= duration (the sentinel start      *)
(* included), f = 1 at every pixel and the composite is texture1.          *)
C4_SteadyStateBlend ==
  uniforms.time - uniforms.timeStart >= DurTicks =>
    \A d \in Pixels :
      /\ F(d) = One
      /\ Composite(d) = TexColor(Texture(uniforms.scene1))

C4_Witness ==
  /\ uniforms.timeStart >= 0
  /\ uniforms.time - uniforms.timeStart >= DurTicks
  /\ uniforms.scene1 = "fbo2" /\ gl.fbo2 # NoScene

(* C5: with the guard consumed, every run of the effect queues the flip of *)
(* the index and the current clock value as start time, whatever the       *)
(* progress of a running transition; the commit applies them, and the next *)
(* frame computes progress from the new start (0 at the trigger instant).  *)
C5_Retrigger ==
  [][ /\ (RunEffect /\ ~isFirstRender) =>
           /\ updateQueue' = updateQueue \o TriggerUpdates(clock)
           /\ trigLog' = Append(trigLog, clock)
      /\ (Render /\ Stamps(updateQueue) # <<>>) =>
           /\ currentSceneIndex' = 1 - currentSceneIndex
           /\ timeStart' = Last(trigLog)
           /\ updateQueue' = <<>>
      /\ FrameTick =>
           /\ uniforms'.timeStart = timeStart
           /\ Progress(uniforms'.time, uniforms'.timeStart)
                = Progress(clock, timeStart)
           /\ clock = timeStart =>
                /\ Progress(uniforms'.time, uniforms'.timeStart) = Zero
                /\ \A d \in Pixels :
                     BlendFactor(uniforms'.time, uniforms'.timeStart, d) = Zero ]_vars

C5_Witness ==
  /\ Len(tsHist) >= 3
  /\ tsHist[3] - tsHist[2] < DurTicks /\ tsHist[3] > tsHist[2]
  /\ timeStart = tsHist[3] /\ currentSceneIndex = 0
  /\ uniforms.timeStart = timeStart /\ uniforms.time = timeStart

(* C6 as stated: the region where f = 1 starts at d = 1 and grows toward   *)
(* d = 0, so a pixel showing texture1 has all pixels to its right showing  *)
(* texture1.                                                               *)
C6_Original ==
  \A d1 \in Pixels : \A d2 \in Pixels :
    (RLt(d1, d2) /\ F(d1) = One) => F(d2) = One

(* C6 amended: the wipe sweeps from d = 0 toward d = 1 (left to right):    *)
(* the region where f = 1 is empty at progress 0, is closed to the left    *)
(* (it starts at d = 0), only grows as now increases for a fixed start,    *)
(* and is every pixel at progress 1.                                       *)
C6_WipeLeftToRight ==
  LET t == uniforms.time
      ts == uniforms.timeStart
  IN  /\ \A d1 \in Pixels : \A d2 \in Pixels :
           (RLt(d1, d2) /\ F(d2) = One) => F(d1) = One
      /\ \A d \in Pixels :
           BlendFactor(t, ts, d) = One => BlendFactor(t + 1, ts, d) = One
      /\ Progress(t, ts) = Zero => \A d \in Pixels : F(d) # One
      /\ Progress(t, ts) = One => \A d \in Pixels : F(d) = One

C6_Witness ==
  /\ uniforms.timeStart >= 0
  /\ F(Zero) = One /\ F(One) # One
  /\ RLt(Zero, Progress(uniforms.time, uniforms.timeStart))
  /\ RLt(Progress(uniforms.time, uniforms.timeStart), One)

(* C7: every frame tick renders Scene[activeIndex] into fbo1 and           *)
(* Scene[1 - activeIndex] into fbo2, two different scenes, and leaves the  *)
(* default target (null) bound.                                            *)
C7_RendererMapping ==
  [][ FrameTick =>
        /\ gl'.fbo1 = currentSceneIndex
        /\ gl'.fbo2 = 1 - currentSceneIndex
        /\ gl'.fbo1 # gl'.fbo2
        /\ gl'.fbo1 \in {0, 1} /\ gl'.fbo2 \in {0, 1}
        /\ gl'.target = "null" ]_vars

C7_Witness ==
  /\ gl.fbo1 = 1 /\ gl.fbo2 = 0 /\ gl.target = "null"
  /\ uniforms.scene0 = "fbo1" /\ uniforms.scene1 = "fbo2"

(* C8 as stated: Scene[0] goes to the first target and Scene[1] to the     *)
(* second in every frame, before and after any trigger.                    *)
C8_Original ==
  gl.fbo1 \in {NoScene, 0} /\ gl.fbo2 \in {NoScene, 1}

(* C8 amended: flipping the active index swaps which scene is rendered     *)
(* into which target: the first frame after a committed flip renders into  *)
(* each target the scene the other target held, a frame without a flip     *)
(* keeps the assignment, and the action uniform flips with the index.      *)
C8_MappingSwaps ==
  [][ /\ (FrameTick /\ gl.fbo1 # NoScene /\ gl.fbo1 # currentSceneIndex) =>
           gl'.fbo1 = gl.fbo2 /\ gl'.fbo2 = gl.fbo1
      /\ (FrameTick /\ gl.fbo1 = currentSceneIndex) => gl' = gl
      /\ (Render /\ currentSceneIndex' # currentSceneIndex) =>
           uniforms'.action = 1 - uniforms.action ]_vars

C8_Witness ==
  /\ currentSceneIndex = 1 /\ gl.fbo1 = 1 /\ gl.fbo2 = 0
  /\ uniforms.action = 1 /\ updateQueue = <<>>

(* C9: every frame tick reads an index and a start time that reflect the   *)
(* same number of triggers: both hooks have had the same number of         *)
(* updates committed, and the frame uses exactly these two values.         *)
C9_AtomicPair ==
  [][ FrameTick =>
        /\ Len(idxHist) = Len(tsHist)
        /\ currentSceneIndex = Last(idxHist) /\ timeStart = Last(tsHist)
        /\ \A k \in 2..Len(tsHist) : tsHist[k] = trigLog[k - 1]
        /\ gl'.fbo1 = Last(idxHist)
        /\ uniforms'.timeStart = Last(tsHist) ]_vars

C9_Witness ==
  /\ Len(idxHist) = 2 /\ Len(tsHist) = 2
  /\ gl.fbo1 = 1 /\ uniforms.timeStart = tsHist[2]
  /\ uniforms.scene0 = "fbo1" /\ updateQueue = <<>>

(* Idle as the compositor sees it: it runs with the current start time and *)
(* now - transitionStart >= duration, so progress = 1                      *)
Idle ==
  /\ uniforms.timeStart = timeStart
  /\ uniforms.time - uniforms.timeStart >= DurTicks
  /\ Progress(uniforms.time, uniforms.timeStart) = One

(* C10: with frames ticking and the clock running, after a trigger the     *)
(* controller reaches Idle unless a further trigger arrives, and stays     *)
(* Idle as long as the start time is not changed by a new trigger.         *)
C10_Completion ==
  /\ (trigLog # <<>> /\ ~TriggerInFlight) ~> (Idle \/ TriggerInFlight)
  /\ [][(Idle /\ timeStart' = timeStart) => Idle']_vars

C10_Witness ==
  /\ Idle /\ Len(tsHist) >= 3 /\ ~TriggerInFlight
  /\ tsHist[3] - tsHist[2] < DurTicks

(* C11: for the uniforms of any frame, f lies in [0,1], is 1 at every      *)
(* pixel left of the wave band, 0 at every pixel right of it, and is       *)
(* monotonic (non-increasing) in d, in particular across the band.         *)
C11_MonotoneBlend ==
  LET w == currWavePos(uniforms.time, uniforms.timeStart)
      lo == RSub(w, halfWave)
      hi == RAdd(w, halfWave)
  IN  /\ \A d \in Pixels : RLe(Zero, F(d)) /\ RLe(F(d), One)
      /\ \A d \in Pixels : RLe(d, lo) => F(d) = One
      /\ \A d \in Pixels : RLe(hi, d) => F(d) = Zero
      /\ \A d1 \in Pixels : \A d2 \in Pixels :
           RLe(d1, d2) => RLe(F(d2), F(d1))

C11_Witness ==
  LET w == currWavePos(uniforms.time, uniforms.timeStart)
      lo == RSub(w, halfWave)
      hi == RAdd(w, halfWave)
  IN  /\ \E d \in Pixels :
           RLt(lo, d) /\ RLt(d, hi) /\ RLt(Zero, F(d)) /\ RLt(F(d), One)
      /\ \E d \in Pixels : RLt(d, lo)
      /\ \E d \in Pixels : RLt(hi, d)

(* C12: a frame tick leaves action, currentSceneIndex, timeStart and       *)
(* isFirstRender (and everything else the triggers drive) unchanged; it    *)
(* writes only the sampled time, the render targets and the uniforms.      *)
C12_FrameKeepsState ==
  [][ FrameTick =>
        /\ UNCHANGED <<action, currentSceneIndex, timeStart, isFirstRender>>
        /\ UNCHANGED <<toggle, propToggle, updateQueue, effectPending>>
        /\ uniforms'.action = uniforms.action
        /\ time' = clock /\ uniforms'.time = clock ]_vars

C12_Witness ==
  /\ ~isFirstRender /\ currentSceneIndex = 1 /\ action = 1
  /\ timeStart >= 0 /\ time > timeStart
  /\ shown.timeStart = timeStart /\ shown.time = time /\ shown.scene0 = 1

(* C13: a frame that runs while materialRef.current is unset writes none   *)
(* of the uniforms and leaves the controller state alone, and still        *)
(* completes (time sampled, default target bound); a frame with the handle *)
(* set writes all four of scene0, scene1, time, timeStart.                 *)
C13_MissingHandle ==
  [][ /\ (FrameTick /\ materialRef = "null") =>
           /\ uniforms' = uniforms
           /\ UNCHANGED <<action, currentSceneIndex, timeStart, isFirstRender>>
           /\ time' = clock /\ gl'.target = "null"
           /\ gl'.fbo1 = currentSceneIndex
      /\ (FrameTick /\ materialRef # "null") =>
           /\ uniforms'.scene0 = "fbo1" /\ uniforms'.scene1 = "fbo2"
           /\ uniforms'.time = clock /\ uniforms'.timeStart = timeStart ]_vars

C13_Witness ==
  /\ materialRef = "null" /\ gl.fbo1 = 0 /\ time > 0
  /\ uniforms.scene0 = "null" /\ uniforms.scene1 = "null"
  /\ uniforms.time = 0

(* C14: in the calls of a frame each off-screen target is bound exactly    *)
(* once, each render goes to its own bound off-screen target, and the      *)
(* textures are handed to the compositor only after both renders and the   *)
(* reset to the default target, so no target is handed over while bound.   *)
C14_WriteThenRead ==
  LET calls == FrameCalls(currentSceneIndex, materialRef)
      Binds(t) == {i \in DOMAIN calls :
                     calls[i].op = "setRenderTarget" /\ calls[i].arg = t}
      Renders == {i \in DOMAIN calls : calls[i].op = "render"}
      Hand == {i \in DOMAIN calls :
                 calls[i].op = "setUniform"
                 /\ calls[i].arg \in {"scene0", "scene1"}}
      TargetBefore(i) ==
        RunCalls([gl |-> gl, uniforms |-> uniforms],
                 SubSeq(calls, 1, i - 1)).gl.target
      End == RunCalls([gl |-> gl, uniforms |-> uniforms], calls)
  IN  /\ Cardinality(Binds("fbo1")) = 1 /\ Cardinality(Binds("fbo2")) = 1
      /\ Cardinality(Renders) = 2
      /\ \A r \in Renders : TargetBefore(r) \in {"fbo1", "fbo2"}
      /\ \A r1 \in Renders : \A r2 \in Renders :
           r1 # r2 => TargetBefore(r1) # TargetBefore(r2)
      /\ \A h \in Hand :
           /\ \A r \in Renders : r < h
           /\ TargetBefore(h) = "null"
           /\ \E n \in Binds("null") :
                n < h /\ \A b \in Binds("fbo1") \cup Binds("fbo2") : b < n
      /\ materialRef # "null" => Cardinality(Hand) = 2
      /\ End.gl.target = "null"

C14_Witness ==
  /\ uniforms.scene0 = "fbo1" /\ uniforms.scene1 = "fbo2"
  /\ gl.target = "null" /\ gl.fbo1 = 1 /\ gl.fbo2 = 0
  /\ shown.scene0 = 1 /\ shown.scene1 = 0 /\ shown.time = time

(* C15: the direction flag equals the active index in every state, as     *)
(* hook state and as uniform, both are 0 or 1, and a step changes one      *)
(* exactly when it changes the other.                                      *)
C15_ActionIsIndex ==
  /\ [](/\ action = currentSceneIndex
        /\ uniforms.action = currentSceneIndex
        /\ action \in {0, 1} /\ currentSceneIndex \in {0, 1})
  /\ [][(action' # action) <=> (currentSceneIndex' # currentSceneIndex)]_vars

C15_Witness ==
  /\ Len(idxHist) >= 3 /\ action = 0 /\ currentSceneIndex = 0
  /\ uniforms.action = 0 /\ updateQueue = <<>>

(* C16 as stated: once the mount run has consumed the guard, whenever no   *)
(* effect is pending, currentSceneIndex = 1 exactly when toggle differs    *)
(* from its value at mount (false).                                        *)
C16_Original ==
  (~effectPending /\ ~isFirstRender) =>
    ((currentSceneIndex = 1) <=> (toggle # FALSE))

(* C16 amended: the guard is consumed before any flip, and whenever no     *)
(* render, effect or queued state update is pending, the guard is consumed *)
(* and currentSceneIndex = 1 exactly when toggle differs from its value at *)
(* mount.                                                                  *)
C16_IndexTracksToggle ==
  /\ isFirstRender => (trigLog = <<>> /\ currentSceneIndex = 0)
  /\ ~TriggerInFlight =>
       /\ ~isFirstRender
       /\ (currentSceneIndex = 1) <=> (toggle # FALSE)
       /\ Len(idxHist) = Len(trigLog) + 1

C16_Witness ==
  /\ ~TriggerInFlight /\ toggle /\ currentSceneIndex = 1
  /\ clicks = 3 /\ Len(trigLog) = 1

(* colour the composite pass draws at pixel d from a uniform snapshot *)
ScreenColor(sn, d) ==
  FragColor(sn.scene0, sn.scene1, sn.time, sn.timeStart, d)

(* C17: when the last composite drawn was an Idle one (f = 1, fbo2) and    *)
(* the index has been flipped since, the frame at the trigger instant      *)
(* (progress 0, f = 0, fbo1) draws at every pixel the colour that was on   *)
(* screen, the colour of Scene[new activeIndex].                           *)
C17_NoJumpFromIdle ==
  [][ ( /\ FrameTick
        /\ shown.scene0 # NoScene /\ shown.scene1 # NoScene
        /\ Progress(shown.time, shown.timeStart) = One
        /\ currentSceneIndex # shown.scene0
        /\ clock = timeStart )
      => \A d \in Pixels :
           /\ BlendFactor(shown.time, shown.timeStart, d) = One
           /\ BlendFactor(shown'.time, shown'.timeStart, d) = Zero
           /\ ScreenColor(shown', d) = ScreenColor(shown, d)
           /\ ScreenColor(shown', d) = SceneColor(currentSceneIndex) ]_vars

C17_Witness ==
  /\ Len(tsHist) = 2 /\ tsHist[2] > 0
  /\ shown.timeStart = tsHist[2] /\ shown.time = shown.timeStart
  /\ shown.scene0 = 1 /\ shown.scene1 = 0
  /\ \A d \in Pixels : ScreenColor(shown, d) = SceneColor(1)

(* C18: every frame drawn with now - transitionStart >= duration shows     *)
(* Scene[1 - activeIndex] at every pixel; before any trigger that is       *)
(* scenes[1].                                                              *)
C18_IdleShowsOther ==
  [][ (FrameTick /\ clock - timeStart >= DurTicks) =>
        /\ shown'.scene1 = 1 - currentSceneIndex
        /\ \A d \in Pixels :
             ScreenColor(shown', d) = SceneColor(1 - currentSceneIndex)
        /\ trigLog = <<>> =>
             \A d \in Pixels :
               /\ ScreenColor(shown', d) = SceneColor(1)
               /\ ScreenColor(shown', d) # SceneColor(0) ]_vars

C18_Witness ==
  /\ trigLog = <<>> /\ clicks = 0 /\ shown.timeStart = Sentinel
  /\ shown.scene0 = 0 /\ shown.scene1 = 1 /\ shown.time > 0
  /\ \A d \in Pixels : ScreenColor(shown, d) = SceneColor(1)

====
